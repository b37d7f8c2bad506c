-------------------------- MODULE BootstrapProofs --------------------------
(***************************************************************************)
(* Networks do not mix, nor do the files of a bootstrap: proofs about      *)
(* Bootstrap, for any number of machines, authorities, bootstraps,         *)
(* interruptions and restarts, and for every length and value of the keys. *)
(*                                                                         *)
(* The argument.  The first key of a bootstrap is new, and its             *)
(* configuration is published once, at its end, so that a genesis          *)
(* validator's key belongs to one configuration (OneConfigPerKey).  Every  *)
(* hash begins with the header of a genesis block and so with such a key   *)
(* (Rooted).  A block that follows the blocks of a node has their root,    *)
(* hence was produced under the node's own configuration.                  *)
(*                                                                         *)
(* Key files convert back to the keys they were written from               *)
(* (KeyFileRoundTrip), or to nothing when they are cut short               *)
(* (CutKeyFileRefused).  Each authority of the configuration in the making *)
(* has its file, whole or cut, from the step that adds it; genesis.json    *)
(* keeps them until another key is generated, which then is not its last   *)
(* address (FilesInv).                                                     *)
(***************************************************************************)
EXTENDS Bootstrap, FiniteSetTheorems, WellFoundedInduction, TLAPS

-----------------------------------------------------------------------------
(***************************************************************************)
(* The inductive invariant                                                 *)
(***************************************************************************)

IsSeq(s) == s \in Seq({s[i] : i \in DOMAIN s})

\* The shapes of what the variables hold.
DirShape(d) == d = [config |-> d.config, key |-> d.key]

Shapes ==
    /\ keys \in 0..Len(KeyPairs)
    /\ DirShape(home)
    /\ DOMAIN dir = Machine /\ \A m \in Machine : DirShape(dir[m])
    /\ DOMAIN data = Machine
    /\ \A m \in Machine :
          /\ data[m] = [height |-> data[m].height, block |-> data[m].block]
          /\ DOMAIN data[m].block = 1..MaxHeight-1
    /\ DOMAIN node = Machine
    /\ boot # None => boot = [count |-> boot.count, config |-> boot.config,
                              opened |-> boot.opened]

\* Every configuration that has left the process that made it, and whether it
\* has authorities.
Published ==
    {home.config} \cup {dir[m].config : m \in Machine}
        \cup {node[m].config : m \in Running} \cup {s.config : s \in sent}

Founded(c) == c \notin Unloadable /\ c.authorities # << >>

Used == {KeyPairs[k] : k \in 1..keys}

\* A genesis validator's key belongs to one configuration.
OneConfigPerKey ==
    /\ \A c \in Published : Founded(c) => getGenesisValidatorKeys(c) \in Used
    /\ \A c, d \in Published :
          Founded(c) /\ Founded(d)
              /\ getGenesisValidatorKeys(c) = getGenesisValidatorKeys(d) => c = d
    /\ boot # None /\ boot.config.authorities # << >> =>
          /\ getGenesisValidatorKeys(boot.config) \in Used
          /\ \A c \in Published :
                Founded(c) => getGenesisValidatorKeys(c) # getGenesisValidatorKeys(boot.config)

\* The hash commits to the genesis block of this configuration.
Rooted(h, config) == IsSeq(h) /\ h # << >> /\ h[1] = Genesis(config).hash[1]

SentRooted ==
    \A s \in sent : /\ s = [block |-> s.block, config |-> s.config]
                    /\ Founded(s.config) /\ Rooted(s.block.hash, s.config)

\* What is on a disk was sent once, under whichever configuration.
DiskSent ==
    \A m \in Machine : \A i \in 1..MaxHeight-1 :
        data[m].block[i] # None => \E s \in sent : s.block = data[m].block[i]

\* A running node, whose chain holds nothing but blocks of its own network
\* among those in S.
NodeOwn(r, S) ==
    /\ r = [config |-> r.config, key |-> r.key, chain |-> r.chain, saving |-> r.saving]
    /\ Founded(r.config)
    /\ IsSeq(r.chain) /\ r.chain # << >> /\ r.chain[1] = Genesis(r.config)
    /\ \A i \in 1..Len(r.chain) : Rooted(r.chain[i].hash, r.config)
    /\ \A i \in 2..Len(r.chain) : [block |-> r.chain[i], config |-> r.config] \in S

NetworkInv ==
    /\ Shapes /\ OneConfigPerKey /\ SentRooted /\ DiskSent
    /\ \A m \in Running : NodeOwn(node[m], sent)

-----------------------------------------------------------------------------
(***************************************************************************)
(* Keys, hashes and sequences                                              *)
(***************************************************************************)

\* A set of natural numbers that is not empty has a least one.
LEMMA LeastNumber ==
    ASSUME NEW T \in SUBSET Nat, T # {}
    PROVE  \E x \in T : \A y \in T : x <= y
  <1>1. PICK x \in T : \A y \in T : ~ (<<y, x>> \in OpToRel(<, Nat))
    BY NatLessThanWellFounded, WFMin, Zenon
  <1>2. \A y \in T : ~ (y < x)
    BY <1>1 DEF OpToRel
  <1> QED
    BY <1>2

\* What Append does to a sequence of values that have no type.
LEMMA Appended ==
    ASSUME NEW s, IsSeq(s), NEW e
    PROVE  /\ IsSeq(Append(s, e)) /\ Append(s, e) # << >>
           /\ Len(s) \in Nat /\ Len(Append(s, e)) = Len(s) + 1
           /\ \A i \in 1..Len(s) : Append(s, e)[i] = s[i]
           /\ Append(s, e)[Len(s) + 1] = e
           /\ s # << >> => 1 \in 1..Len(s)
  <1> DEFINE S == {s[i] : i \in DOMAIN s}
             U == S \cup {e}
             t == Append(s, e)
  <1>1. s \in Seq(U) /\ e \in U
    BY DEF IsSeq
  <1>2. /\ t \in Seq(U) /\ Len(t) = Len(s) + 1 /\ t # << >>
        /\ Len(s) \in Nat /\ DOMAIN s = 1..Len(s) /\ DOMAIN t = 1..Len(t)
        /\ \A i \in 1..Len(s) : t[i] = s[i]
        /\ t[Len(s) + 1] = e
    <2> HIDE DEF U
    <2> QED
      BY <1>1
  <1>3. s # << >> => 1 \in 1..Len(s)
    <2> HIDE DEF U
    <2> QED
      BY <1>1, <1>2
  <1>4. IsSeq(t)
    <2> DEFINE R == {t[i] : i \in DOMAIN t}
    <2> HIDE DEF t
    <2>1. \A i \in 1..Len(t) : t[i] \in R
      BY <1>2
    <2>2. t \in [1..Len(t) -> R]
      <3> HIDE DEF R, U
      <3> QED
        BY <1>2, <2>1
    <2>3. Len(t) \in Nat
      BY <1>2
    <2>4. t \in Seq(R)
      <3> HIDE DEF R
      <3> QED
        BY <2>2, <2>3
    <2> QED
      BY <2>4 DEF IsSeq
  <1> QED
    BY <1>2, <1>3, <1>4

\* No key is generated twice.
LEMMA KeysDiffer ==
    /\ Len(KeyPairs) \in Nat
    /\ \A k \in 1..Len(KeyPairs) : KeyPairs[k] \in PrivateKey
    /\ \A j, k \in 1..Len(KeyPairs) : KeyPairs[j] = KeyPairs[k] => j = k
  <1>1. KeyPairs \in Seq(PrivateKey)
    BY BootstrapAssumption
  <1>2. /\ Len(KeyPairs) \in Nat /\ DOMAIN KeyPairs = 1..Len(KeyPairs)
        /\ \A k \in 1..Len(KeyPairs) : KeyPairs[k] \in PrivateKey
    BY <1>1
  <1> QED
    BY <1>2, BootstrapAssumption

\* The hash of a genesis block is its header, which names the validator.
LEMMA GenesisRoot ==
    ASSUME NEW config
    PROVE  /\ Rooted(Genesis(config).hash, config)
           /\ Genesis(config).hash[1].validator = getGenesisValidatorKeys(config)
  <1> DEFINE hdr(r) == [index |-> 0, timestamp |-> 0,
                        validator |-> getGenesisValidatorKeys(config),
                        transactions |-> r]
  <1>1. PICK r : Genesis(config).hash = Append(<< >>, hdr(r))
    BY DEF Genesis, Rules!GenesisBlock, Rules!SignedBlock, Rules!ZeroHash,
           Rules!computeBlockHash
  <1>2. Append(<< >>, hdr(r))[1] = hdr(r)
    <2> HIDE DEF hdr
    <2> QED
      OBVIOUS
  <1>3. IsSeq(Append(<< >>, hdr(r))) /\ Append(<< >>, hdr(r)) # << >>
    <2> DEFINE e == << >>
    <2>1. e \in Seq({e[i] : i \in DOMAIN e})
      OBVIOUS
    <2>2. IsSeq(e)
      BY <2>1 DEF IsSeq
    <2> HIDE DEF e
    <2>3. IsSeq(Append(e, hdr(r))) /\ Append(e, hdr(r)) # << >>
      BY <2>2, Appended
    <2> QED
      BY <2>3 DEF e
  <1> QED
    BY <1>1, <1>2, <1>3 DEF Rooted

\* So configurations that begin with the same block have the same validator.
LEMMA SameRoot ==
    ASSUME NEW c, NEW d, Genesis(c).hash[1] = Genesis(d).hash[1]
    PROVE  getGenesisValidatorKeys(c) = getGenesisValidatorKeys(d)
  BY GenesisRoot

\* A longer hash has the root of the one it extends.
LEMMA RootStays ==
    ASSUME NEW config, NEW h, Rooted(h, config), NEW x
    PROVE  Rooted(Append(h, x), config)
  BY Appended DEF Rooted

\* A block that addBlock accepts has the root of the chain it extends.
LEMMA AddedRoot ==
    ASSUME NEW config, NEW chain, NEW b, Rooted(chain[Len(chain)].hash, config),
           CanAdd(config, chain, b)
    PROVE  Rooted(b.hash, config)
  <1>1. PICK x : b.hash = Append(chain[Len(chain)].hash, x)
    BY DEF CanAdd, Rules!CanAdd, Rules!Follows, Rules!verifyBlock,
           Rules!computeBlockHash, Rules!getLatestBlock
  <1> QED
    BY <1>1, RootStays

\* The same for a block that createBlock makes.
LEMMA CreatedRoot ==
    ASSUME NEW config, NEW chain, NEW key, Rooted(chain[Len(chain)].hash, config)
    PROVE  Rooted(NewBlock(config, chain, key).hash, config)
  <1>1. PICK x : NewBlock(config, chain, key).hash = Append(chain[Len(chain)].hash, x)
    BY DEF NewBlock, Rules!createBlock, Rules!SignedBlock, Rules!computeBlockHash, Last
  <1> QED
    BY <1>1, RootStays

-----------------------------------------------------------------------------
(***************************************************************************)
(* One configuration per key                                               *)
(***************************************************************************)

\* Steps that publish nothing new.
LEMMA KeysKept ==
    ASSUME Shapes, OneConfigPerKey, keys' \in 0..Len(KeyPairs), keys' >= keys,
           \A c \in Published' : Founded(c) => c \in Published,
           boot' # None /\ boot'.config.authorities # << >> =>
               boot # None /\ boot'.config = boot.config
    PROVE  OneConfigPerKey'
  <1>1. Used \subseteq Used'
    BY DEF Used, Shapes
  <1> QED
    BY <1>1 DEF OneConfigPerKey

\* A key that was generated is new.
LEMMA FreshKey ==
    ASSUME keys \in Nat, keys < Len(KeyPairs)
    PROVE  generateKeyPair \notin Used
  <1> SUFFICES ASSUME NEW k \in 1..keys, KeyPairs[keys + 1] = KeyPairs[k]
               PROVE  FALSE
    BY DEF generateKeyPair, Used
  <1>1. k \in 1..Len(KeyPairs) /\ keys + 1 \in 1..Len(KeyPairs)
    BY KeysDiffer
  <1>2. keys + 1 = k
    BY <1>1, KeysDiffer
  <1> QED
    BY <1>2

\* The key of an authority is generated: the first one founds a configuration
\* that nobody has yet.
LEMMA GenerateKeys ==
    ASSUME Shapes, OneConfigPerKey, GenerateAuthority
    PROVE  OneConfigPerKey' /\ Shapes'
  <1> DEFINE key == generateKeyPair
  <1>1. /\ boot # None /\ keys' = keys + 1 /\ keys < Len(KeyPairs)
        /\ boot' = [boot EXCEPT !.config = WithAuthority(@, key)]
        /\ UNCHANGED <<dir, data, node, sent>>
    BY DEF GenerateAuthority
  <1>2. PICK k : home' = [home EXCEPT !.key = k]
    BY DEF GenerateAuthority, WriteKey
  <1>3. DirShape(home') /\ home'.config = home.config
    BY <1>2 DEF Shapes, DirShape
  <1>4. /\ boot' = [count |-> boot'.count, config |-> boot'.config,
                    opened |-> boot'.opened]
        /\ boot'.config = WithAuthority(boot.config, key)
    BY <1>1 DEF Shapes
  <1>5. Published' = Published
    BY <1>1, <1>3 DEF Published, Running
  <1>6. /\ Used \subseteq Used' /\ key \in Used' /\ key \notin Used
        /\ keys' \in 0..Len(KeyPairs)
    BY <1>1, FreshKey, KeysDiffer DEF Used, Shapes, generateKeyPair
  <1>7. getGenesisValidatorKeys(boot'.config) =
            IF boot.config.authorities = << >> THEN key
            ELSE getGenesisValidatorKeys(boot.config)
    BY <1>4 DEF WithAuthority, getGenesisValidatorKeys
  <1> HIDE DEF key
  <1>8. OneConfigPerKey'
    BY <1>1, <1>5, <1>6, <1>7 DEF OneConfigPerKey
  <1>9. Shapes'
    BY <1>1, <1>3, <1>4, <1>6 DEF Shapes
  <1> QED
    BY <1>8, <1>9

\* The configuration is published, and the process that made it is done.
LEMMA SaveKeys ==
    ASSUME Shapes, OneConfigPerKey, SaveConfig
    PROVE  OneConfigPerKey' /\ Shapes'
  <1>1. /\ boot # None /\ boot' = None
        /\ UNCHANGED <<keys, dir, data, node, sent>>
    BY DEF SaveConfig
  <1>0. PICK c \in {boot.config, Torn} : home' = [home EXCEPT !.config = c]
    BY DEF SaveConfig
  <1>2. DirShape(home') /\ home'.config = c
    BY <1>0 DEF Shapes, DirShape
  <1>3. /\ Published' \subseteq Published \cup {c}
        /\ Founded(c) => c = boot.config
    BY <1>1, <1>2 DEF Published, Running, Founded, Unloadable
  <1>4. Used' = Used
    BY <1>1 DEF Used
  <1>5. OneConfigPerKey'
    BY <1>1, <1>3, <1>4 DEF OneConfigPerKey, Founded
  <1>6. Shapes'
    BY <1>1, <1>2 DEF Shapes
  <1> QED
    BY <1>5, <1>6

-----------------------------------------------------------------------------
(***************************************************************************)
(* Blocks of one's own network                                             *)
(***************************************************************************)

\* A block that was sent and has a node's root was produced under the node's
\* configuration.
LEMMA RootIsOwn ==
    ASSUME OneConfigPerKey, SentRooted, NEW s \in sent,
           NEW config \in Published, Founded(config), Rooted(s.block.hash, config)
    PROVE  [block |-> s.block, config |-> config] \in sent
  <1>1. /\ s = [block |-> s.block, config |-> s.config] /\ Founded(s.config)
        /\ Rooted(s.block.hash, s.config) /\ s.config \in Published
    BY DEF SentRooted, Published
  <1>2. getGenesisValidatorKeys(config) = getGenesisValidatorKeys(s.config)
    BY <1>1, SameRoot DEF Rooted
  <1>3. config = s.config
    BY <1>1, <1>2 DEF OneConfigPerKey
  <1> QED
    BY <1>1, <1>3

\* recoverFromStorage only takes blocks of its own network from the disk:
\* otherwise there would be a first one with another root.
LEMMA RecoversOwn ==
    ASSUME Shapes, OneConfigPerKey, SentRooted, DiskSent, NEW m \in Machine,
           NEW config \in Published, Founded(config), NEW key, NEW w,
           NEW k \in 1..MaxHeight, RecoversTo(config, data[m], k)
    PROVE  NodeOwn([config |-> config, key |-> key,
                    chain |-> Stored(config, data[m], k), saving |-> w], sent)
  <1> DEFINE d == data[m]
             c == Stored(config, d, k)
             T == {j \in 1..k : ~ Rooted(c[j].hash, config)}
  <1>1. k \in Nat /\ k >= 1 /\ 1 \in 1..k /\ k <= MaxHeight
    BY BootstrapAssumption
  <1>2. /\ c = [j \in 1..k |-> c[j]] /\ c[1] = Genesis(config)
        /\ \A j \in 2..k : c[j] = d.block[j-1]
    BY <1>1 DEF Stored
  <1>3. ASSUME NEW j \in 2..k
        PROVE  /\ d.block[j-1] # None
               /\ CanAdd(config, Stored(config, d, j-1), d.block[j-1])
               /\ Len(Stored(config, d, j-1)) = j - 1
               /\ Stored(config, d, j-1)[j-1] = c[j-1]
    <2>1. j - 1 \in 1..k-1 /\ j - 1 \in Nat /\ j - 1 \in 1..j-1 /\ j - 1 \in 1..k
      BY <1>1
    <2>2. /\ d.block[j-1] # None
          /\ CanAdd(config, Stored(config, d, j-1), d.block[j-1])
      BY <2>1 DEF RecoversTo
    <2>3. Len(Stored(config, d, j-1)) = j - 1
      BY <2>1 DEF Stored
    <2>4. Stored(config, d, j-1)[j-1] = c[j-1]
      BY <2>1 DEF Stored
    <2> QED
      BY <2>2, <2>3, <2>4
  <1>4. \A j \in 1..k : Rooted(c[j].hash, config)
    <2> SUFFICES ASSUME T # {}
                 PROVE  FALSE
      OBVIOUS
    <2>1. T \in SUBSET Nat
      BY <1>1
    <2>2. PICK j \in T : \A i \in T : j <= i
      <3> HIDE DEF T
      <3> QED
        BY <2>1, LeastNumber
    <2>3. j \in 1..k /\ ~ Rooted(c[j].hash, config)
      BY <2>2
    <2>4. j # 1
      BY <1>2, <2>3, GenesisRoot
    <2>5. j \in 2..k /\ j - 1 \in 1..k /\ ~ (j <= j - 1)
      BY <1>1, <2>3, <2>4
    <2>6. Rooted(c[j-1].hash, config)
      BY <2>2, <2>5
    <2>7. Rooted(d.block[j-1].hash, config)
      <3> DEFINE p == Stored(config, d, j-1)
      <3>1. CanAdd(config, p, d.block[j-1]) /\ p[Len(p)] = c[j-1]
        BY <1>3, <2>5
      <3> HIDE DEF p, c
      <3> QED
        BY <2>6, <3>1, AddedRoot
    <2> QED
      BY <1>2, <2>3, <2>5, <2>7
  <1> HIDE DEF c
  <1>5. Len(c) = k /\ IsSeq(c) /\ c # << >>
    <2> DEFINE R == {c[j] : j \in DOMAIN c}
    <2>1. DOMAIN c = 1..k
      BY <1>2
    <2>2. \A j \in 1..k : c[j] \in R
      BY <2>1
    <2>3. c \in [1..k -> R]
      <3> HIDE DEF R
      <3> QED
        BY <1>2, <2>2
    <2>4. c \in Seq(R) /\ Len(c) = k
      <3> HIDE DEF R
      <3> QED
        BY <1>1, <2>3
    <2>5. c # << >>
      BY <1>1, <2>4
    <2> QED
      BY <2>4, <2>5 DEF IsSeq
  <1>6. ASSUME NEW j \in 2..k
        PROVE  [block |-> c[j], config |-> config] \in sent
    <2>1. j - 1 \in 1..MaxHeight-1 /\ j \in 1..k
      BY <1>1, BootstrapAssumption
    <2>2. PICK s \in sent : s.block = c[j]
      BY <1>2, <1>3, <2>1 DEF DiskSent
    <2> QED
      BY <1>4, <2>1, <2>2, RootIsOwn
  <1>7. NodeOwn([config |-> config, key |-> key, chain |-> c, saving |-> w], sent)
    BY <1>2, <1>4, <1>5, <1>6 DEF NodeOwn
  <1> QED
    BY <1>7 DEF c

\* A chain keeps to its network when a block of it is added.
LEMMA OwnGrows ==
    ASSUME NEW r, NEW S, NodeOwn(r, S), NEW G, S \subseteq G, NEW b,
           Rooted(b.hash, r.config), [block |-> b, config |-> r.config] \in G, NEW w,
           NEW q, q = [r EXCEPT !.chain = Append(@, b), !.saving = w]
    PROVE  NodeOwn(q, G)
  <1> DEFINE c == r.chain
             n == Len(c)
             e == Append(c, b)
  <1>1. /\ q = [config |-> q.config, key |-> q.key, chain |-> q.chain, saving |-> q.saving]
        /\ q.config = r.config /\ q.chain = e
    <2>1. r = [config |-> r.config, key |-> r.key, chain |-> r.chain, saving |-> r.saving]
      BY DEF NodeOwn
    <2>2. q = [r EXCEPT !.chain = e, !.saving = w]
      OBVIOUS
    <2> HIDE DEF e
    <2> QED
      BY <2>1, <2>2
  <1>2. /\ IsSeq(e) /\ e # << >> /\ n \in Nat /\ Len(e) = n + 1
        /\ \A i \in 1..n : e[i] = c[i]
        /\ e[n + 1] = b /\ 1 \in 1..n
    BY Appended DEF NodeOwn
  <1> HIDE DEF e
  <1>3. e[1] = Genesis(r.config)
    BY <1>2 DEF NodeOwn
  <1>4. ASSUME NEW i \in 1..n+1
        PROVE  Rooted(e[i].hash, r.config)
    <2>1. CASE i \in 1..n
      BY <1>2, <2>1 DEF NodeOwn
    <2>2. CASE i = n + 1
      BY <1>2, <2>2
    <2> QED
      BY <1>2, <2>1, <2>2
  <1>5. ASSUME NEW i \in 2..n+1
        PROVE  [block |-> e[i], config |-> r.config] \in G
    <2>1. CASE i \in 2..n
      <3>1. e[i] = c[i]
        BY <1>2, <2>1
      <3> QED
        BY <2>1, <3>1 DEF NodeOwn
    <2>2. CASE i = n + 1
      BY <1>2, <2>2
    <2> QED
      BY <1>2, <2>1, <2>2
  <1>6. Founded(r.config)
    BY DEF NodeOwn
  <1> QED
    BY <1>1, <1>2, <1>3, <1>4, <1>5, <1>6 DEF NodeOwn

-----------------------------------------------------------------------------
(***************************************************************************)
(* The invariant is one                                                    *)
(***************************************************************************)

\* Nobody has anything at first.
LEMMA NetworkInit == Init => NetworkInv
  <1> SUFFICES ASSUME Init
               PROVE  NetworkInv
    OBVIOUS
  <1>1. Running = {} /\ sent = {} /\ boot = None /\ keys = 0
    BY DEF Init, Running
  <1>2. Shapes
    <2>1. DirShape(EmptyDir)
      BY DEF DirShape, EmptyDir
    <2>2. DirShape(home) /\ DOMAIN dir = Machine /\ \A m \in Machine : DirShape(dir[m])
      BY <2>1 DEF Init
    <2>3. /\ DOMAIN data = Machine /\ DOMAIN node = Machine
          /\ \A m \in Machine :
                /\ data[m] = [height |-> data[m].height, block |-> data[m].block]
                /\ DOMAIN data[m].block = 1..MaxHeight-1
      BY DEF Init
    <2> QED
      BY <1>1, <2>2, <2>3 DEF Shapes
  <1>3. Published \subseteq {None}
    BY <1>1 DEF Published, Init, EmptyDir
  <1>4. OneConfigPerKey
    BY <1>1, <1>3 DEF OneConfigPerKey, Founded, Unloadable
  <1>5. DiskSent
    BY DEF DiskSent, Init
  <1> QED
    BY <1>1, <1>2, <1>4, <1>5 DEF NetworkInv, SentRooted

\* Steps that leave nodes, disks and what was sent alone.
LEMMA NodesAlone ==
    ASSUME NetworkInv, UNCHANGED <<data, node, sent>>, Shapes', OneConfigPerKey'
    PROVE  NetworkInv'
  <1>1. Running' = Running
    BY DEF Running
  <1>2. SentRooted' /\ DiskSent'
    BY DEF NetworkInv, SentRooted, DiskSent
  <1> QED
    BY <1>1, <1>2 DEF NetworkInv

\* A running node gets a block of its own network.
LEMMA AddsOwn ==
    ASSUME NetworkInv, NEW m \in Running, NEW b, AddBlock(m, b),
           Rooted(b.hash, node[m].config),
           [block |-> b, config |-> node[m].config] \in sent',
           sent' \subseteq sent \cup {[block |-> b, config |-> node[m].config]},
           sent \subseteq sent', UNCHANGED <<keys, boot, files>>
    PROVE  NetworkInv'
  <1>0. Shapes /\ OneConfigPerKey /\ SentRooted /\ DiskSent /\ m \in Machine
    BY DEF NetworkInv, Running
  <1>1. PICK r : r = node[m]
    OBVIOUS
  <1>2. PICK q : q = [r EXCEPT !.chain = Append(@, b), !.saving = TRUE]
    OBVIOUS
  <1>3. NodeOwn(r, sent)
    BY <1>1 DEF NetworkInv
  <1>4. NodeOwn(q, sent')
    BY <1>1, <1>2, <1>3, OwnGrows
  <1>5. q.config = r.config
    BY <1>2, <1>3 DEF NodeOwn
  <1>6. node' = [node EXCEPT ![m] = q]
    BY <1>1, <1>2 DEF AddBlock
  <1>7. /\ DOMAIN node' = Machine /\ node'[m] = q
        /\ \A j \in Machine : j # m => node'[j] = node[j]
    BY <1>0, <1>6 DEF Shapes
  <1>8. Running' \subseteq Running
    BY <1>7 DEF Running
  <1>9. \A j \in Running' : NodeOwn(node'[j], sent')
    <2> SUFFICES ASSUME NEW j \in Running', j # m
                 PROVE  NodeOwn(node'[j], sent')
      BY <1>4, <1>7
    <2>1. j \in Running /\ j \in Machine
      BY <1>8 DEF Running
    <2>2. node'[j] = node[j] /\ NodeOwn(node[j], sent)
      BY <1>7, <2>1 DEF NetworkInv
    <2> QED
      BY <2>2 DEF NodeOwn
  <1>10. \A c \in Published' : c \in Published
    <2>1. \A j \in Running' : node'[j].config = node[j].config
      BY <1>1, <1>5, <1>7 DEF Running
    <2> QED
      BY <1>8, <2>1 DEF Published, files
  <1>11. OneConfigPerKey'
    BY <1>0, <1>10, KeysKept DEF Shapes
  <1>12. SentRooted'
    BY <1>0, <1>1, <1>3 DEF SentRooted, NodeOwn
  <1>13. /\ DOMAIN data' = Machine /\ \A j \in Machine : j # m => data'[j] = data[j]
         /\ data'[m] = [data[m] EXCEPT !.block = [@ EXCEPT ![b.index] = b]]
    BY <1>0 DEF AddBlock, Shapes
  <1>14. /\ data'[m] = [height |-> data'[m].height, block |-> data'[m].block]
         /\ data'[m].block = [data[m].block EXCEPT ![b.index] = b]
    <2>1. PICK d : d = data[m]
      OBVIOUS
    <2>2. PICK e : e = data'[m]
      OBVIOUS
    <2>3. PICK f : f = [d.block EXCEPT ![b.index] = b]
      OBVIOUS
    <2>4. e = [d EXCEPT !.block = f] /\ d = [height |-> d.height, block |-> d.block]
      BY <1>0, <1>13, <2>1, <2>2, <2>3 DEF Shapes
    <2>5. e = [height |-> e.height, block |-> e.block] /\ e.block = f
      BY <2>4
    <2> QED
      BY <2>1, <2>2, <2>3, <2>5
  <1>15. DOMAIN data'[m].block = 1..MaxHeight-1
    BY <1>0, <1>14 DEF Shapes
  <1>16. Shapes'
    BY <1>0, <1>7, <1>13, <1>14, <1>15 DEF Shapes, files
  <1>17. DiskSent'
    <2> SUFFICES ASSUME NEW j \in Machine, NEW i \in 1..MaxHeight-1,
                        data'[j].block[i] # None
                 PROVE  \E s \in sent' : s.block = data'[j].block[i]
      BY DEF DiskSent
    <2>1. CASE j = m /\ i = b.index
      <3>1. data'[j].block[i] = b
        BY <1>0, <1>14, <2>1 DEF Shapes
      <3>2. [block |-> b, config |-> node[m].config].block = b
        OBVIOUS
      <3> QED
        BY <3>1, <3>2
    <2>2. CASE ~ (j = m /\ i = b.index)
      <3>1. data'[j].block[i] = data[j].block[i]
        BY <1>0, <1>13, <1>14, <2>2 DEF Shapes
      <3> QED
        BY <1>0, <3>1 DEF DiskSent
    <2> QED
      BY <2>1, <2>2
  <1> QED
    BY <1>9, <1>11, <1>12, <1>16, <1>17 DEF NetworkInv

\* The steps of the process that generates keys.
LEMMA GenerateStep ==
    ASSUME NetworkInv,
           \/ \E count \in Counts : BeginGenerate(count)
           \/ GenerateAuthority \/ OpenConfig \/ SaveConfig \/ Interrupt
    PROVE  NetworkInv'
  <1>0. Shapes /\ OneConfigPerKey
    BY DEF NetworkInv
  <1>1. ASSUME NEW count \in Counts, BeginGenerate(count)
        PROVE  NetworkInv'
    <2>1. /\ UNCHANGED <<keys, home, dir, data, node, sent>>
          /\ boot' = [count |-> count, config |-> NoConfig, opened |-> FALSE]
      BY <1>1 DEF BeginGenerate, files
    <2>2. boot'.config.authorities = << >>
      BY <2>1 DEF NoConfig
    <2>3. Published' = Published
      BY <2>1 DEF Published, Running
    <2>4. OneConfigPerKey'
      BY <1>0, <2>1, <2>2, <2>3, KeysKept DEF Shapes
    <2>5. Shapes'
      BY <1>0, <2>1 DEF Shapes
    <2> QED
      BY <2>1, <2>4, <2>5, NodesAlone
  <1>2. CASE GenerateAuthority
    <2>1. UNCHANGED <<data, node, sent>>
      BY <1>2 DEF GenerateAuthority
    <2> QED
      BY <1>0, <1>2, <2>1, GenerateKeys, NodesAlone
  <1>3. CASE OpenConfig
    <2>1. /\ home' = [home EXCEPT !.config = Torn]
          /\ boot' = [boot EXCEPT !.opened = TRUE] /\ boot # None
          /\ UNCHANGED <<keys, dir, data, node, sent>>
      BY <1>3 DEF OpenConfig
    <2>2. DirShape(home') /\ home'.config = Torn
      BY <1>0, <2>1 DEF Shapes, DirShape
    <2>3. /\ boot' = [count |-> boot'.count, config |-> boot'.config,
                      opened |-> boot'.opened]
          /\ boot'.config = boot.config
      BY <1>0, <2>1 DEF Shapes
    <2>4. \A c \in Published' : Founded(c) => c \in Published
      BY <2>1, <2>2 DEF Published, Running, Founded, Unloadable
    <2>5. OneConfigPerKey'
      BY <1>0, <2>1, <2>3, <2>4, KeysKept DEF Shapes
    <2>6. Shapes'
      BY <1>0, <2>1, <2>2, <2>3 DEF Shapes
    <2> QED
      BY <2>1, <2>5, <2>6, NodesAlone
  <1>4. CASE SaveConfig
    <2>1. UNCHANGED <<data, node, sent>>
      BY <1>4 DEF SaveConfig
    <2> QED
      BY <1>0, <1>4, <2>1, SaveKeys, NodesAlone
  <1>5. CASE Interrupt
    <2>1. /\ boot' = None /\ UNCHANGED <<dir, data, node, sent>>
          /\ keys' = keys \/ (keys' = keys + 1 /\ keys < Len(KeyPairs))
          /\ home' = home \/ \E k : home' = [home EXCEPT !.key = k]
      BY <1>5 DEF Interrupt, WriteKey
    <2>2. DirShape(home') /\ home'.config = home.config
      BY <1>0, <2>1 DEF Shapes, DirShape
    <2>3. Published' = Published
      BY <2>1, <2>2 DEF Published, Running
    <2>4. keys' \in 0..Len(KeyPairs) /\ keys' >= keys
      BY <1>0, <2>1, KeysDiffer DEF Shapes
    <2>5. OneConfigPerKey'
      BY <1>0, <2>1, <2>3, <2>4, KeysKept
    <2>6. Shapes'
      BY <1>0, <2>1, <2>2, <2>4 DEF Shapes
    <2> QED
      BY <2>1, <2>5, <2>6, NodesAlone
  <1> QED
    BY <1>1, <1>2, <1>3, <1>4, <1>5

\* The operator's copies publish nothing new.
LEMMA CopyStep ==
    ASSUME NetworkInv, NEW m \in Machine, CopyConfig(m) \/ CopyKey(m)
    PROVE  NetworkInv'
  <1>0. Shapes /\ OneConfigPerKey
    BY DEF NetworkInv
  <1>1. /\ UNCHANGED <<keys, boot, home, data, node, sent>>
        /\ \E d : dir' = [dir EXCEPT ![m] = d] /\ DirShape(d)
                    /\ d.config \in {home.config, dir[m].config}
    <2>1. PICK r : r = dir[m]
      OBVIOUS
    <2>2. DirShape(r)
      BY <1>0, <2>1 DEF Shapes
    <2>3. CASE CopyConfig(m)
      <3>1. PICK d : d = [r EXCEPT !.config = home.config]
        OBVIOUS
      <3>2. DirShape(d) /\ d.config = home.config
        BY <2>2, <3>1 DEF DirShape
      <3>3. dir' = [dir EXCEPT ![m] = d]
        BY <2>1, <2>3, <3>1 DEF CopyConfig
      <3> QED
        BY <2>3, <3>2, <3>3 DEF CopyConfig
    <2>4. CASE CopyKey(m)
      <3>1. PICK k : k = [r.key EXCEPT ![m] = home.key[m]]
        OBVIOUS
      <3>2. PICK d : d = [r EXCEPT !.key = k]
        OBVIOUS
      <3>3. DirShape(d) /\ d.config = r.config
        BY <2>2, <3>2 DEF DirShape
      <3>4. dir' = [dir EXCEPT ![m] = d]
        BY <2>1, <2>4, <3>1, <3>2 DEF CopyKey
      <3> QED
        BY <2>1, <2>4, <3>3, <3>4 DEF CopyKey
    <2> QED
      BY <2>3, <2>4
  <1>2. PICK d : /\ dir' = [dir EXCEPT ![m] = d] /\ DirShape(d)
                 /\ d.config \in {home.config, dir[m].config}
    BY <1>1
  <1>3. /\ DOMAIN dir' = Machine
        /\ \A j \in Machine : dir'[j] = IF j = m THEN d ELSE dir[j]
    BY <1>0, <1>2 DEF Shapes
  <1>4. \A j \in Machine : DirShape(dir'[j]) /\ dir'[j].config \in Published
    BY <1>0, <1>2, <1>3 DEF Shapes, Published
  <1>5. Published' \subseteq Published
    BY <1>1, <1>4 DEF Published, Running
  <1>6. OneConfigPerKey'
    BY <1>0, <1>1, <1>5, KeysKept DEF Shapes
  <1>7. Shapes'
    BY <1>0, <1>1, <1>3, <1>4 DEF Shapes
  <1> QED
    BY <1>1, <1>6, <1>7, NodesAlone

\* A node comes up on its own configuration and the blocks of its network.
LEMMA RunStep ==
    ASSUME NetworkInv, NEW m \in Machine, runNode(m)
    PROVE  NetworkInv'
  <1> DEFINE config == dir[m].config
             key == loadPrivateKey(dir[m].key[m])
  <1>0. Shapes /\ OneConfigPerKey /\ SentRooted /\ DiskSent
    BY DEF NetworkInv
  <1>1. /\ UNCHANGED <<keys, boot, home, dir, data, sent>>
        /\ config \notin Unloadable /\ m < Len(config.authorities)
    BY DEF runNode, files
  <1>2. PICK k \in 1..MaxHeight :
            /\ RecoversTo(config, data[m], k)
            /\ node' = [node EXCEPT ![m] =
                           [config |-> config, key |-> key,
                            chain |-> Stored(config, data[m], k), saving |-> FALSE]]
    BY DEF runNode
  <1>3. Founded(config)
    <2>1. m \in Nat
      BY BootstrapAssumption
    <2>2. config.authorities # << >>
      <3> SUFFICES ASSUME config.authorities = << >>
                   PROVE  FALSE
        OBVIOUS
      <3>1. Len(config.authorities) = 0
        OBVIOUS
      <3> HIDE DEF config
      <3> QED
        BY <1>1, <2>1, <3>1
    <2> QED
      BY <1>1, <2>2 DEF Founded
  <1>4. config \in Published
    BY DEF Published
  <1> HIDE DEF config, key
  <1>5. PICK q : q = [config |-> config, key |-> key,
                      chain |-> Stored(config, data[m], k), saving |-> FALSE]
    OBVIOUS
  <1>6. NodeOwn(q, sent)
    BY <1>0, <1>2, <1>3, <1>4, <1>5, RecoversOwn
  <1>7. /\ DOMAIN node' = Machine /\ node'[m] = q
        /\ \A j \in Machine : j # m => node'[j] = node[j]
    BY <1>0, <1>2, <1>5 DEF Shapes
  <1>8. ASSUME NEW j \in Running', j # m
        PROVE  j \in Running /\ node'[j] = node[j]
    <2>1. j \in Machine /\ node'[j] # None
      BY <1>8 DEF Running
    <2>2. node'[j] = node[j]
      BY <1>7, <1>8, <2>1
    <2> QED
      BY <2>1, <2>2 DEF Running
  <1>9. \A j \in Running' : NodeOwn(node'[j], sent')
    BY <1>1, <1>6, <1>7, <1>8 DEF NetworkInv
  <1>10. q.config = config
    BY <1>5
  <1>11. Published' \subseteq Published
    BY <1>1, <1>4, <1>7, <1>8, <1>10 DEF Published
  <1>12. OneConfigPerKey'
    BY <1>0, <1>1, <1>11, KeysKept DEF Shapes
  <1>13. Shapes' /\ SentRooted' /\ DiskSent'
    BY <1>0, <1>1, <1>7 DEF Shapes, SentRooted, DiskSent
  <1> QED
    BY <1>9, <1>12, <1>13 DEF NetworkInv

\* Saving a height and ending a node take no block in.
LEMMA SaveKillStep ==
    ASSUME NetworkInv, NEW m \in Machine, SaveHeight(m) \/ Kill(m)
    PROVE  NetworkInv'
  <1>0. Shapes /\ OneConfigPerKey /\ SentRooted /\ DiskSent
    BY DEF NetworkInv
  <1>1. CASE SaveHeight(m)
    <2>1. /\ UNCHANGED <<keys, boot, home, dir, sent>> /\ m \in Running
      BY <1>1 DEF SaveHeight, files, Running
    <2>2. PICK d, e : d = data[m] /\ e = [d EXCEPT !.height = Len(node[m].chain)]
      OBVIOUS
    <2>3. /\ data' = [data EXCEPT ![m] = e]
          /\ d = [height |-> d.height, block |-> d.block]
      BY <1>0, <1>1, <2>2 DEF SaveHeight, Shapes
    <2>4. e = [height |-> e.height, block |-> e.block] /\ e.block = d.block
      BY <2>2, <2>3
    <2>5. /\ DOMAIN data' = Machine
          /\ \A j \in Machine :
                /\ data'[j] = [height |-> data'[j].height, block |-> data'[j].block]
                /\ data'[j].block = data[j].block
      BY <1>0, <2>2, <2>3, <2>4 DEF Shapes
    <2>6. PICK r, q : r = node[m] /\ q = [r EXCEPT !.saving = FALSE]
      OBVIOUS
    <2>7. /\ node' = [node EXCEPT ![m] = q] /\ NodeOwn(r, sent)
      BY <1>1, <2>1, <2>6 DEF SaveHeight, NetworkInv
    <2>8. q.config = r.config /\ NodeOwn(q, sent)
      <3>1. r = [config |-> r.config, key |-> r.key, chain |-> r.chain, saving |-> r.saving]
        BY <2>7 DEF NodeOwn
      <3>2. /\ q = [config |-> q.config, key |-> q.key, chain |-> q.chain, saving |-> q.saving]
            /\ q.config = r.config /\ q.chain = r.chain
        BY <2>6, <3>1
      <3> QED
        BY <2>7, <3>2 DEF NodeOwn
    <2>9. /\ DOMAIN node' = Machine
          /\ \A j \in Running' :
                j \in Running /\ NodeOwn(node'[j], sent) /\ node'[j].config = node[j].config
      BY <1>0, <2>1, <2>6, <2>7, <2>8 DEF Shapes, Running, NetworkInv
    <2>10. Published' \subseteq Published
      BY <2>1, <2>9 DEF Published
    <2>11. OneConfigPerKey'
      BY <1>0, <2>1, <2>10, KeysKept DEF Shapes
    <2>12. Shapes' /\ SentRooted' /\ DiskSent'
      BY <1>0, <2>1, <2>5, <2>9 DEF Shapes, SentRooted, DiskSent
    <2> QED
      BY <2>1, <2>9, <2>11, <2>12 DEF NetworkInv
  <1>2. CASE Kill(m)
    <2>1. /\ UNCHANGED <<keys, boot, home, dir, data, sent>>
          /\ node' = [node EXCEPT ![m] = None]
      BY <1>2 DEF Kill, files
    <2>2. /\ DOMAIN node' = Machine
          /\ \A j \in Running' : j \in Running /\ node'[j] = node[j]
      BY <1>0, <2>1 DEF Shapes, Running
    <2>3. Published' \subseteq Published
      BY <2>1, <2>2 DEF Published
    <2>4. OneConfigPerKey'
      BY <1>0, <2>1, <2>3, KeysKept DEF Shapes
    <2>5. Shapes' /\ SentRooted' /\ DiskSent'
      BY <1>0, <2>1, <2>2 DEF Shapes, SentRooted, DiskSent
    <2> QED
      BY <2>1, <2>2, <2>4, <2>5 DEF NetworkInv
  <1> QED
    BY <1>1, <1>2

\* The last block of a node's chain has its root.
LEMMA LastRooted ==
    ASSUME NEW r, NEW S, NodeOwn(r, S)
    PROVE  Rooted(r.chain[Len(r.chain)].hash, r.config)
  <1>1. r.chain # << >> /\ IsSeq(r.chain)
    BY DEF NodeOwn
  <1>2. Len(r.chain) \in Nat /\ 1 \in 1..Len(r.chain)
    BY <1>1, Appended
  <1> QED
    BY <1>2 DEF NodeOwn

\* A block that a node produces, or that reaches it from any network.
LEMMA BlockStep ==
    ASSUME NetworkInv, NEW m \in Machine,
           produceBlock(m) \/ \E s \in sent : onNewBlock(m, s.block)
    PROVE  NetworkInv'
  <1>0. /\ OneConfigPerKey /\ SentRooted /\ m \in Running
        /\ UNCHANGED <<keys, boot, files>>
    BY DEF NetworkInv, produceBlock, onNewBlock, Ready, Running
  <1>1. NodeOwn(node[m], sent) /\ node[m].config \in Published
    BY <1>0 DEF NetworkInv, Published
  <1>2. /\ Founded(node[m].config)
        /\ Rooted(node[m].chain[Len(node[m].chain)].hash, node[m].config)
    BY <1>1, LastRooted DEF NodeOwn
  <1>3. CASE produceBlock(m)
    <2> DEFINE b == NewBlock(node[m].config, node[m].chain, node[m].key)
    <2>1. AddBlock(m, b) /\ sent' = sent \cup {[block |-> b, config |-> node[m].config]}
      BY <1>3 DEF produceBlock
    <2>2. Rooted(b.hash, node[m].config)
      BY <1>2, CreatedRoot
    <2> HIDE DEF b
    <2> QED
      BY <1>0, <2>1, <2>2, AddsOwn
  <1>4. ASSUME NEW s \in sent, onNewBlock(m, s.block)
        PROVE  NetworkInv'
    <2>1. /\ AddBlock(m, s.block) /\ sent' = sent
          /\ CanAdd(node[m].config, node[m].chain, s.block)
      BY <1>4 DEF onNewBlock
    <2>2. Rooted(s.block.hash, node[m].config)
      BY <1>2, <2>1, AddedRoot
    <2>3. [block |-> s.block, config |-> node[m].config] \in sent
      BY <1>0, <1>1, <1>2, <2>2, RootIsOwn
    <2> QED
      BY <1>0, <2>1, <2>2, <2>3, AddsOwn
  <1> QED
    BY <1>3, <1>4

\* The invariant holds in every reachable state.
LEMMA NetworkAlways == Spec => []NetworkInv
  <1>1. ASSUME NetworkInv, [Next]_vars
        PROVE  NetworkInv'
    <2>1. CASE UNCHANGED vars
      <3>1. UNCHANGED <<keys, boot, home, dir, data, node, sent>>
        BY <2>1 DEF vars
      <3>2. Published' = Published
        BY <3>1 DEF Published, Running
      <3>5. Shapes /\ OneConfigPerKey
        BY <1>1 DEF NetworkInv
      <3>3. OneConfigPerKey'
        BY <3>1, <3>2, <3>5, KeysKept DEF Shapes
      <3>4. Shapes'
        BY <3>1, <3>5 DEF Shapes
      <3> QED
        BY <1>1, <3>1, <3>3, <3>4, NodesAlone
    <2> QED
      BY <1>1, <2>1, GenerateStep, CopyStep, RunStep, SaveKillStep, BlockStep DEF Next
  <1> QED
    BY NetworkInit, <1>1, PTL DEF Spec

-----------------------------------------------------------------------------
(***************************************************************************)
(* What the invariant is for                                               *)
(***************************************************************************)

\* The genesis block commits to no more than the validator's key; still, nodes
\* that begin with the same block agree on authorities and initial accounts,
\* whatever interrupted and repeated bootstraps were handed out.
THEOREM SameGenesis == Spec => []SameGenesisSameStart
  <1>1. NetworkInv => SameGenesisSameStart
    <2> SUFFICES ASSUME NetworkInv, NEW m \in Running, NEW n \in Running,
                        node[m].chain[1] = node[n].chain[1]
                 PROVE  node[m].config = node[n].config
      BY DEF SameGenesisSameStart
    <2>1. /\ node[m].chain[1] = Genesis(node[m].config) /\ Founded(node[m].config)
          /\ node[n].chain[1] = Genesis(node[n].config) /\ Founded(node[n].config)
      BY DEF NetworkInv, NodeOwn
    <2>2. getGenesisValidatorKeys(node[m].config) = getGenesisValidatorKeys(node[n].config)
      BY <2>1, SameRoot
    <2>3. node[m].config \in Published /\ node[n].config \in Published
      BY DEF Published
    <2> QED
      BY <2>1, <2>2, <2>3 DEF NetworkInv, OneConfigPerKey
  <1> QED
    BY NetworkAlways, <1>1, PTL

\* A node takes in no block of another network, neither from peers of a
\* network that is still about nor from a data directory that an old one left.
THEOREM NetworksApart == Spec => []OwnNetwork
  <1>1. NetworkInv => OwnNetwork
    BY DEF NetworkInv, NodeOwn, OwnNetwork
  <1> QED
    BY NetworkAlways, <1>1, PTL

-----------------------------------------------------------------------------
(***************************************************************************)
(* The text of a key file                                                  *)
(***************************************************************************)

\* The digits that toHex writes are no space, and have the value they stand for.
LEMMA HexDigits ==
    ASSUME NEW v \in 0..15
    PROVE  /\ hexChars[v + 1] \in ToSet(hexChars) /\ hexChars[v + 1] \notin Space
           /\ IsDigit(hexChars[v + 1]) /\ Digit[hexChars[v + 1]] = v
  <1> DEFINE Chars == {"0", "1", "2", "3", "4", "5", "6", "7",
                       "8", "9", "a", "b", "c", "d", "e", "f"}
  <1>1. hexChars[v + 1] \in Chars
    BY DEF hexChars
  <1>2. hexChars[v + 1] \in ToSet(hexChars)
    BY DEF hexChars, ToSet
  <1>5. \A c \in Chars : c # " "
    BY Zenon
  <1>6. \A c \in Chars : c \notin {"\t", "\r", "\n"}
    OBVIOUS
  <1>7. \A c \in Chars : c \notin Space
    <2> HIDE DEF Chars
    <2> QED
      BY <1>5, <1>6, Zenon DEF Space
  <1>3. Digit[hexChars[v + 1]] = v
    BY DEF Digit, hexChars, UpperCase, ToSet
  <1>4. IsDigit(hexChars[v + 1])
    BY DEF IsDigit, Digit, hexChars, ToSet
  <1> QED
    BY <1>2, <1>1, <1>3, <1>4, <1>7

\* stoul reads the two digits of a byte.
LEMMA ByteBack ==
    ASSUME NEW b \in 0..255
    PROVE  /\ b \div 16 \in 0..15 /\ b % 16 \in 0..15
           /\ stoul(hexChars[(b \div 16) + 1], hexChars[(b % 16) + 1]) = b
  <1>1. b \div 16 \in 0..15 /\ b % 16 \in 0..15 /\ 16 * (b \div 16) + (b % 16) = b
    <2>1. b \div 16 \in 0..15
      OBVIOUS
    <2>2. b % 16 \in 0..15
      OBVIOUS
    <2>3. 16 * (b \div 16) + (b % 16) = b
      OBVIOUS
    <2> QED
      BY <2>1, <2>2, <2>3
  <1>2. PICK u \in 0..15, v \in 0..15 : u = b \div 16 /\ v = b % 16
    BY <1>1
  <1>3. stoul(hexChars[u + 1], hexChars[v + 1]) = 16 * u + v
    BY HexDigits DEF stoul
  <1> QED
    BY <1>1, <1>2, <1>3

\* The text of a key has two digits for each byte.
LEMMA HexText ==
    ASSUME NEW k \in PrivateKey
    PROVE  /\ toHex(k) \in [1..2 * KeyLength -> ToSet(hexChars)]
           /\ \A i \in 1..2 * KeyLength : toHex(k)[i] \notin Space
           /\ \A i \in 1..KeyLength :
                 /\ toHex(k)[2 * i - 1] = hexChars[(k[i] \div 16) + 1]
                 /\ toHex(k)[2 * i] = hexChars[(k[i] % 16) + 1]
  <1> DEFINE L == 2 * KeyLength
             char(i) == LET b == k[(i + 1) \div 2]
                        IN  hexChars[(IF i % 2 = 1 THEN b \div 16 ELSE b % 16) + 1]
  <1>1. KeyLength \in Nat /\ L \in Nat
    BY KeyFileAssumption
  <1>2. Len(k) = KeyLength
    BY <1>1 DEF PrivateKey
  <1>3. toHex(k) = [i \in 1..L |-> char(i)]
    BY <1>2 DEF toHex
  <1>4. ASSUME NEW i \in 1..L
        PROVE  char(i) \in ToSet(hexChars) /\ char(i) \notin Space
    <2>1. (i + 1) \div 2 \in 1..KeyLength
      BY <1>1
    <2>2. PICK b \in 0..255 : b = k[(i + 1) \div 2]
      BY <2>1 DEF PrivateKey
    <2>3. PICK v \in 0..15 : v = IF i % 2 = 1 THEN b \div 16 ELSE b % 16
      BY ByteBack
    <2>4. char(i) = hexChars[v + 1]
      BY <2>2, <2>3
    <2> QED
      BY <2>4, HexDigits
  <1>5. ASSUME NEW i \in 1..KeyLength
        PROVE  /\ 2 * i - 1 \in 1..L /\ char(2 * i - 1) = hexChars[(k[i] \div 16) + 1]
               /\ 2 * i \in 1..L /\ char(2 * i) = hexChars[(k[i] % 16) + 1]
    <2>1. i \in Nat /\ 2 * i - 1 \in 1..L /\ 2 * i \in 1..L
      BY <1>1
    <2>2. (2 * i - 1 + 1) \div 2 = i /\ (2 * i + 1) \div 2 = i
      BY <2>1
    <2>3. (2 * i - 1) % 2 = 1 /\ (2 * i) % 2 # 1
      BY <2>1
    <2> QED
      BY <2>1, <2>2, <2>3
  <1> HIDE DEF char, L
  <1>6. toHex(k) \in [1..L -> ToSet(hexChars)] /\ \A i \in 1..L : toHex(k)[i] \notin Space
    BY <1>3, <1>4
  <1>7. \A i \in 1..KeyLength :
            /\ toHex(k)[2 * i - 1] = hexChars[(k[i] \div 16) + 1]
            /\ toHex(k)[2 * i] = hexChars[(k[i] % 16) + 1]
    BY <1>3, <1>5
  <1> QED
    BY <1>6, <1>7 DEF L

\* fromHex converts it back.
LEMMA HexBack ==
    ASSUME NEW k \in PrivateKey
    PROVE  fromHexFixed(KeyLength, toHex(k)) = k
  <1> DEFINE h == toHex(k)
             pair(i) == stoul(h[2 * i - 1], h[2 * i])
  <1>1. KeyLength \in Nat /\ 2 * KeyLength \in Nat
    BY KeyFileAssumption
  <1>2. Len(h) = 2 * KeyLength
    BY <1>1, HexText
  <1>3. Len(h) % 2 = 0 /\ Len(h) \div 2 = KeyLength
    BY <1>1, <1>2
  <1>4. ASSUME NEW i \in 1..KeyLength
        PROVE  pair(i) = k[i] /\ pair(i) # None /\ pair(i) % 256 = k[i]
    <2>1. PICK b \in 0..255 : b = k[i]
      BY DEF PrivateKey
    <2>2. pair(i) = b
      BY <2>1, HexText, ByteBack
    <2>3. b # None /\ b % 256 = b
      BY NoneAssumption
    <2> QED
      BY <2>1, <2>2, <2>3
  <1>5. fromHex(h) = [i \in 1..KeyLength |-> pair(i) % 256]
    BY <1>3, <1>4 DEF fromHex
  <1> HIDE DEF pair
  <1>6. fromHex(h) = k
    BY <1>4, <1>5 DEF PrivateKey
  <1>7. Len(k) = KeyLength
    BY <1>1 DEF PrivateKey
  <1> QED
    BY <1>6, <1>7 DEF fromHexFixed

\* The line that is read back is the text without its line end, whether that was
\* written or not.
LEMMA LineBack ==
    ASSUME NEW L \in Nat, NEW h \in [1..L -> ToSet(hexChars)],
           \A i \in 1..L : h[i] \notin Space,
           NEW t \in Seq(ToSet(hexChars) \cup Space), Len(t) \in {L, L + 1},
           \A i \in 1..L : t[i] = h[i],
           Len(t) = L + 1 => t[L + 1] = "\n"
    PROVE  Line(t) = h
  <1> DEFINE ends == {i \in DOMAIN t : t[i] = "\n"} \cup {Len(t) + 1}
             end == CHOOSE i \in ends : \A j \in ends : i <= j
             kept == {i \in 1..end-1 : t[i] \notin Space}
             rank(i) == Cardinality({j \in kept : j <= i})
  <1>1. DOMAIN t = 1..Len(t) /\ Len(t) \in Nat
    OBVIOUS
  <1>2. end = L + 1
    <2>1. "\n" \in Space
      BY DEF Space
    <2>2. \A i \in 1..L : t[i] # "\n"
      BY <2>1
    <2>3. L + 1 \in ends /\ \A j \in ends : L + 1 <= j
      <3>1. CASE Len(t) = L
        BY <1>1, <2>2, <3>1
      <3>2. CASE Len(t) = L + 1
        BY <1>1, <2>2, <3>2
      <3> QED
        BY <3>1, <3>2
    <2>4. \A i \in ends : i \in Nat
      <3>1. PICK l \in Nat : l = Len(t)
        BY <1>1
      <3>2. \A i \in 1..l : i \in Nat
        OBVIOUS
      <3>3. DOMAIN t = 1..l
        BY <1>1, <3>1, Zenon
      <3>4. \A i \in DOMAIN t : i \in Nat
        BY <3>2, <3>3, Zenon
      <3>5. Len(t) + 1 \in Nat
        BY <3>1
      <3> QED
        BY <3>4, <3>5, Zenon
    <2> HIDE DEF ends
    <2> QED
      BY <2>3, <2>4
  <1>3. kept = 1..L
    <2>1. kept = {i \in 1..L : t[i] \notin Space}
      <3> HIDE DEF end
      <3>1. end - 1 = L
        BY <1>2
      <3> QED
        BY <3>1
    <2> HIDE DEF kept
    <2> QED
      BY <2>1
  <1>4. ASSUME NEW i \in 1..L
        PROVE  rank(i) = i
    <2>1. {j \in kept : j <= i} = 1..i
      BY <1>3
    <2>2. Cardinality(1..i) = i
      BY FS_Interval
    <2> QED
      BY <2>1, <2>2
  <1>5. Cardinality(kept) = L
    <2>1. Cardinality(1..L) = L
      BY FS_Interval
    <2> QED
      BY <1>3, <2>1
  <1>6. Line(t) = [n \in 1..Cardinality(kept) |-> t[CHOOSE i \in kept : rank(i) = n]]
    BY Zenon DEF Line
  <1> HIDE DEF rank, kept, end, ends
  <1>7. ASSUME NEW n \in 1..L
        PROVE  t[CHOOSE i \in kept : rank(i) = n] = h[n]
    <2>1. (CHOOSE i \in kept : rank(i) = n) = n
      BY <1>3, <1>4
    <2> QED
      BY <2>1
  <1> QED
    BY <1>5, <1>6, <1>7

\* The text that savePrivateKey writes, as a sequence.
LEMMA KeyText ==
    ASSUME NEW k \in PrivateKey
    PROVE  /\ 2 * KeyLength \in Nat
           /\ savePrivateKey(k) \in Seq(ToSet(hexChars) \cup Space)
           /\ Len(savePrivateKey(k)) = 2 * KeyLength + 1
           /\ \A i \in 1..2 * KeyLength : savePrivateKey(k)[i] = toHex(k)[i]
           /\ savePrivateKey(k)[2 * KeyLength + 1] = "\n"
  <1> DEFINE h == toHex(k)
             L == 2 * KeyLength
  <1>1. L \in Nat /\ h \in [1..L -> ToSet(hexChars)]
    BY KeyFileAssumption, HexText
  <1>2. savePrivateKey(k) = Append(h, "\n") /\ "\n" \in Space
    BY DEF savePrivateKey, Space
  <1> HIDE DEF h, L
  <1>3. h \in Seq(ToSet(hexChars) \cup Space) /\ Len(h) = L
    BY <1>1
  <1>4. /\ L \in Nat
        /\ savePrivateKey(k) \in Seq(ToSet(hexChars) \cup Space)
        /\ Len(savePrivateKey(k)) = L + 1
        /\ \A i \in 1..L : savePrivateKey(k)[i] = h[i]
        /\ savePrivateKey(k)[L + 1] = "\n"
    BY <1>1, <1>2, <1>3
  <1> QED
    BY <1>4 DEF h, L

\* loadPrivateKey reads back every key that savePrivateKey wrote, leading zeros
\* included.
THEOREM KeyFileRoundTrip ==
    ASSUME NEW k \in PrivateKey
    PROVE  loadPrivateKey(savePrivateKey(k)) = k
  <1>1. toHex(k) # << >>
    <2>1. /\ 2 * KeyLength \in Nat /\ 2 * KeyLength > 0
          /\ toHex(k) \in [1..2 * KeyLength -> ToSet(hexChars)]
      BY KeyFileAssumption, HexText
    <2> QED
      BY <2>1
  <1>2. savePrivateKey(k) # None
    BY KeyText, NoneAssumption
  <1>3. Line(savePrivateKey(k)) = toHex(k)
    <2>1. PICK L \in Nat : L = 2 * KeyLength
      BY KeyText
    <2>2. /\ toHex(k) \in [1..L -> ToSet(hexChars)]
          /\ \A i \in 1..L : toHex(k)[i] \notin Space
      BY <2>1, HexText
    <2>3. /\ savePrivateKey(k) \in Seq(ToSet(hexChars) \cup Space)
          /\ Len(savePrivateKey(k)) = L + 1
          /\ \A i \in 1..L : savePrivateKey(k)[i] = toHex(k)[i]
          /\ savePrivateKey(k)[L + 1] = "\n"
      BY <2>1, KeyText
    <2> QED
      BY <2>2, <2>3, LineBack
  <1> QED
    BY <1>1, <1>2, <1>3, HexBack DEF loadPrivateKey

\* Fewer digits than a key has are not a key.
LEMMA TooShort ==
    ASSUME NEW hex, NEW n \in Nat, Len(hex) = n, n < 2 * KeyLength
    PROVE  fromHexFixed(KeyLength, hex) = None
  <1> DEFINE pairs == 1..(n \div 2)
             byte(i) == stoul(hex[2*i - 1], hex[2*i]) % 256
  <1>1. KeyLength \in Nat /\ KeyLength # 0
    BY KeyFileAssumption
  <1>2. n \div 2 \in Nat /\ n \div 2 < KeyLength
    BY <1>1
  <1>3. fromHex(hex) = << >> \/ fromHex(hex) = [i \in pairs |-> byte(i)]
    BY DEF fromHex
  <1> HIDE DEF byte
  <1>4. Len(<< >>) = 0 /\ Len([i \in pairs |-> byte(i)]) = n \div 2
    BY <1>2
  <1>5. Len(fromHex(hex)) # KeyLength
    BY <1>1, <1>2, <1>3, <1>4
  <1> QED
    BY <1>5 DEF fromHexFixed

\* Wherever the text of a key file breaks off, loadPrivateKey refuses what is
\* left, unless it is the whole key without its line end.
THEOREM CutKeyFileRefused ==
    ASSUME NEW k \in PrivateKey, NEW n \in Nat, n < Len(savePrivateKey(k))
    PROVE  loadPrivateKey(SubSeq(savePrivateKey(k), 1, n)) =
               IF n = 2 * KeyLength THEN k ELSE None
  <1> DEFINE h == SubSeq(toHex(k), 1, n)
             t == SubSeq(savePrivateKey(k), 1, n)
  <1>1. PICK L \in Nat : L = 2 * KeyLength
    BY KeyText
  <1>2. n <= L
    BY <1>1, KeyText
  <1>3. toHex(k) \in [1..L -> ToSet(hexChars)] /\ \A i \in 1..L : toHex(k)[i] \notin Space
    BY <1>1, HexText
  <1>4. h = [i \in 1..n |-> toHex(k)[i]]
    BY <1>2, <1>3
  <1>5. h \in [1..n -> ToSet(hexChars)] /\ \A i \in 1..n : h[i] \notin Space
    <2>1. \A i \in 1..n : i \in 1..L
      BY <1>2
    <2> HIDE DEF h
    <2> QED
      BY <1>3, <1>4, <2>1
  <1>6. /\ savePrivateKey(k) \in Seq(ToSet(hexChars) \cup Space)
        /\ Len(savePrivateKey(k)) = L + 1
        /\ \A i \in 1..L : savePrivateKey(k)[i] = toHex(k)[i]
    BY <1>1, KeyText
  <1>7. t \in Seq(ToSet(hexChars) \cup Space) /\ Len(t) = n
    BY <1>2, <1>6
  <1>8. \A i \in 1..n : t[i] = h[i]
    <2>1. \A i \in 1..n : t[i] = savePrivateKey(k)[i]
      BY <1>2, <1>6
    <2> HIDE DEF h, t
    <2> QED
      BY <1>2, <1>4, <1>6, <2>1
  <1> HIDE DEF h, t
  <1>9. Line(t) = h
    BY <1>5, <1>7, <1>8, LineBack
  <1>10. t # None
    BY <1>7, NoneAssumption
  <1>11. Len(h) = n
    BY <1>5
  <1>12. CASE n = L
    <2>1. h = toHex(k)
      BY <1>3, <1>4, <1>12
    <2>2. h # << >>
      <3>1. L > 0
        BY <1>1, KeyFileAssumption
      <3> QED
        BY <1>11, <1>12, <3>1
    <2> QED
      BY <1>1, <1>9, <1>10, <1>12, <2>1, <2>2, HexBack DEF loadPrivateKey, t
  <1>13. CASE n # L
    <2>1. n < 2 * KeyLength
      BY <1>1, <1>2, <1>13
    <2>2. fromHexFixed(KeyLength, h) = None
      BY <1>11, <2>1, TooShort
    <2> QED
      BY <1>1, <1>9, <1>13, <2>2 DEF loadPrivateKey, t
  <1> QED
    BY <1>12, <1>13

-----------------------------------------------------------------------------
(***************************************************************************)
(* Key files and genesis.json                                              *)
(***************************************************************************)

\* The addresses of a configuration are keys that were generated.
Addresses(config) ==
    /\ IsSeq(config.authorities)
    /\ \A i \in 1..Len(config.authorities) : config.authorities[i].address \in Used

\* auth<m>.key was last written for this key: its text is there, or the writing
\* broke off.
WrittenFor(m, key) ==
    \/ home.key[m] = savePrivateKey(key)
    \/ /\ m \in broken
       /\ \E n \in Nat : /\ n < Len(savePrivateKey(key))
                        /\ home.key[m] = SubSeq(savePrivateKey(key), 1, n)

\* A key file for each of its authorities, as far as there are machines.
HasKeyFiles(config) ==
    \A m \in Machine : m < Len(config.authorities) =>
        WrittenFor(m, config.authorities[m + 1].address)

\* The configuration in the making has its files at all times, the one that
\* was saved has them until another key is generated.
FilesInv ==
    /\ DOMAIN home.key = Machine
    /\ boot # None => Addresses(boot.config) /\ HasKeyFiles(boot.config)
    /\ Founded(home.config) =>
          /\ Addresses(home.config)
          /\ Last(home.config.authorities).address = KeyPairs[keys] =>
                HasKeyFiles(home.config)

\* Steps that generate no key and write no file.
LEMMA FilesAlone ==
    ASSUME FilesInv, UNCHANGED <<keys, home, broken>>,
           boot' # None => boot # None /\ boot'.config = boot.config
    PROVE  FilesInv'
  BY DEF FilesInv, Addresses, HasKeyFiles, WrittenFor, Used, Founded

\* Once another key is generated, the last address of genesis.json is not the
\* last key.
LEMMA OldFiles ==
    ASSUME FilesInv, home'.config = home.config, Used \subseteq Used',
           KeyPairs[keys'] \notin Used, Founded(home.config)
    PROVE  /\ Addresses(home.config)'
           /\ Last(home'.config.authorities).address # KeyPairs[keys']
  <1>1. Addresses(home.config)
    BY DEF FilesInv
  <1>2. PICK s : s = home.config.authorities
    OBVIOUS
  <1>3. s # << >> /\ s \in Seq({s[i] : i \in DOMAIN s})
    BY <1>1, <1>2 DEF Founded, Addresses, IsSeq
  <1>4. Len(s) \in 1..Len(s)
    BY <1>3
  <1>5. Last(home.config.authorities).address \in Used
    BY <1>1, <1>2, <1>4 DEF Addresses, Last
  <1> QED
    BY <1>1, <1>5 DEF Addresses

\* The key file of the authority whose key is generated is written, those of the
\* authorities before it are kept.  genesis.json, if it is there, is that of an
\* earlier key.
LEMMA GenerateFiles ==
    ASSUME Shapes, FilesInv, GenerateAuthority
    PROVE  FilesInv'
  <1> DEFINE key == generateKeyPair
             auths == boot.config.authorities
             n == Len(auths)
             entry == [address |-> key, publicKey |-> key, allocation |-> 10000]
  <1>1. /\ boot # None /\ keys < Len(KeyPairs) /\ keys' = keys + 1
        /\ boot' = [boot EXCEPT !.config = WithAuthority(@, key)]
    BY DEF GenerateAuthority
  <1>0. PICK text :
          /\ home' = [home EXCEPT !.key = [m \in Machine |-> IF m = n THEN text ELSE @[m]]]
          /\ \/ text = savePrivateKey(key) /\ broken' = broken \ {n}
             \/ /\ broken' = broken \cup {n}
                /\ \E l \in Cuts : /\ l < Len(savePrivateKey(key))
                                   /\ text = SubSeq(savePrivateKey(key), 1, l)
    BY DEF GenerateAuthority, WriteKey
  <1>2. /\ home'.config = home.config /\ DOMAIN home'.key = Machine
        /\ \A m \in Machine : home'.key[m] = IF m = n THEN text ELSE home.key[m]
    BY <1>0 DEF Shapes, DirShape
  <1>14. \A m \in Machine : m # n => (m \in broken <=> m \in broken')
    BY <1>0
  <1>15. ASSUME NEW m \in Machine, m = n, NEW k, k = key
         PROVE  WrittenFor(m, k)'
    <2>1. home'.key[m] = text
      BY <1>2, <1>15
    <2>2. CASE text = savePrivateKey(k)
      BY <2>1, <2>2 DEF WrittenFor
    <2>3. CASE /\ m \in broken'
               /\ \E l \in Nat : /\ l < Len(savePrivateKey(k))
                                /\ text = SubSeq(savePrivateKey(k), 1, l)
      BY <2>1, <2>3 DEF WrittenFor
    <2> QED
      BY <1>0, <1>15, <2>2, <2>3, BootstrapAssumption
  <1>3. boot'.config.authorities = Append(auths, entry)
    BY <1>1 DEF Shapes, WithAuthority
  <1>4. key = KeyPairs[keys + 1] /\ keys \in Nat /\ keys + 1 \in 1..Len(KeyPairs)
    BY <1>1, KeysDiffer DEF Shapes, generateKeyPair
  <1>5. Used \subseteq Used' /\ key \in Used' /\ key \notin Used
    BY <1>1, <1>4, FreshKey DEF Used
  <1>6. Addresses(boot.config) /\ HasKeyFiles(boot.config)
    BY <1>1 DEF FilesInv
  <1> HIDE DEF key
  <1>7. entry.address = key
    OBVIOUS
  <1>8. PICK a : a = Append(auths, entry)
    <2> HIDE DEF auths, entry
    <2> QED
      OBVIOUS
  <1>9. /\ IsSeq(a) /\ n \in Nat /\ Len(a) = n + 1
        /\ \A i \in 1..n : a[i] = auths[i]
        /\ a[n + 1].address = key
    BY <1>6, <1>7, <1>8, Appended DEF Addresses
  <1>10. \A i \in 1..n+1 : a[i].address \in Used'
    BY <1>5, <1>6, <1>9 DEF Addresses
  <1>11. ASSUME NEW m \in Machine, m < n + 1
         PROVE  WrittenFor(m, a[m + 1].address)'
    <2>1. m \in Nat
      BY BootstrapAssumption
    <2>2. CASE m = n
      BY <1>9, <1>15, <2>2
    <2>3. CASE m # n
      <3>1. m < n /\ m + 1 \in 1..n
        BY <1>9, <1>11, <2>1, <2>3
      <3> QED
        BY <1>2, <1>6, <1>9, <1>14, <2>3, <3>1 DEF HasKeyFiles, WrittenFor
    <2> QED
      BY <2>2, <2>3
  <1> HIDE DEF auths, n, entry
  <1>12. Addresses(boot.config)' /\ HasKeyFiles(boot.config)'
    BY <1>3, <1>8, <1>9, <1>10, <1>11 DEF Addresses, HasKeyFiles
  <1>13. KeyPairs[keys'] \notin Used
    BY <1>1, <1>4, <1>5
  <1> QED
    BY <1>2, <1>5, <1>12, <1>13, OldFiles DEF FilesInv, Founded

\* What is saved is what was in the making, or nothing that loads.
LEMMA SaveFiles ==
    ASSUME Shapes, FilesInv, SaveConfig
    PROVE  FilesInv'
  <1>1. /\ boot # None /\ boot' = None /\ UNCHANGED <<keys, broken>>
    BY DEF SaveConfig
  <1>2. PICK c \in {boot.config, Torn} : home' = [home EXCEPT !.config = c]
    BY DEF SaveConfig
  <1>3. home'.config = c /\ home'.key = home.key
    BY <1>2 DEF Shapes, DirShape
  <1>4. Founded(home'.config) => home'.config = boot.config
    BY <1>3 DEF Founded, Unloadable
  <1> QED
    BY <1>1, <1>3, <1>4 DEF FilesInv, Addresses, HasKeyFiles, WrittenFor, Used

\* Opening the file leaves nothing to load; an interruption may leave a key file
\* empty, after a key that is in no configuration.
LEMMA StopFiles ==
    ASSUME Shapes, FilesInv, OpenConfig \/ Interrupt
    PROVE  FilesInv'
  <1>1. CASE OpenConfig
    <2>1. /\ boot # None /\ home' = [home EXCEPT !.config = Torn]
          /\ boot' = [boot EXCEPT !.opened = TRUE] /\ UNCHANGED <<keys, broken>>
      BY <1>1 DEF OpenConfig
    <2>2. home'.config = Torn /\ home'.key = home.key /\ boot'.config = boot.config
      BY <2>1 DEF Shapes, DirShape
    <2>3. ~ Founded(home'.config)
      BY <2>2 DEF Founded, Unloadable
    <2> QED
      BY <2>1, <2>2, <2>3 DEF FilesInv, Addresses, HasKeyFiles, WrittenFor, Used
  <1>2. CASE Interrupt
    <2>1. /\ boot' = None
          /\ \/ UNCHANGED <<keys, home, broken>>
             \/ /\ keys < Len(KeyPairs) /\ keys' = keys + 1
                /\ home' = [home EXCEPT !.key =
                      [m \in Machine |-> IF m = Len(boot.config.authorities)
                                          THEN << >> ELSE @[m]]]
      BY <1>2 DEF Interrupt, WriteKey
    <2>2. CASE UNCHANGED <<keys, home, broken>>
      BY <2>1, <2>2, FilesAlone
    <2>3. CASE /\ keys < Len(KeyPairs) /\ keys' = keys + 1
               /\ home' = [home EXCEPT !.key =
                      [m \in Machine |-> IF m = Len(boot.config.authorities)
                                          THEN << >> ELSE @[m]]]
      <3>1. home'.config = home.config /\ DOMAIN home'.key = Machine
        BY <2>3 DEF Shapes, DirShape
      <3>2. Used \subseteq Used' /\ KeyPairs[keys'] \notin Used
        BY <2>3, FreshKey, KeysDiffer DEF Used, Shapes, generateKeyPair
      <3> QED
        BY <2>1, <3>1, <3>2, OldFiles DEF FilesInv, Founded
    <2> QED
      BY <2>1, <2>2, <2>3
  <1> QED
    BY <1>1, <1>2

\* The invariant holds in every reachable state.
LEMMA FilesAlways == Spec => []FilesInv
  <1>1. Init => FilesInv
    BY DEF Init, EmptyDir, FilesInv, Founded, Unloadable
  <1>2. ASSUME Shapes, FilesInv, [Next]_vars
        PROVE  FilesInv'
    <2>1. CASE \E count \in Counts : BeginGenerate(count)
      <3>1. UNCHANGED <<keys, home, broken>> /\ boot'.config = NoConfig
        BY <2>1 DEF BeginGenerate, files
      <3>2. NoConfig.authorities = << >>
        BY DEF NoConfig
      <3>3. IsSeq(<< >>) /\ Len(<< >>) = 0
        <4>1. PICK e : e = << >>
          OBVIOUS
        <4>2. e \in Seq({e[i] : i \in DOMAIN e})
          BY <4>1
        <4> QED
          BY <4>1, <4>2 DEF IsSeq
      <3>4. Addresses(NoConfig)'
        BY <3>2, <3>3 DEF Addresses
      <3>5. HasKeyFiles(NoConfig)'
        BY <3>2, <3>3, BootstrapAssumption DEF HasKeyFiles
      <3> QED
        BY <1>2, <3>1, <3>4, <3>5
           DEF FilesInv, Addresses, HasKeyFiles, WrittenFor, Used, Founded
    <2>2. CASE GenerateAuthority \/ OpenConfig \/ SaveConfig \/ Interrupt
      BY <1>2, <2>2, GenerateFiles, SaveFiles, StopFiles
    <2>3. CASE \/ UNCHANGED vars
               \/ \E m \in Machine :
                    \/ CopyConfig(m) \/ CopyKey(m)
                    \/ runNode(m) \/ produceBlock(m) \/ SaveHeight(m) \/ Kill(m)
                    \/ \E s \in sent : onNewBlock(m, s.block)
      <3>1. UNCHANGED <<keys, boot, home, broken>>
        BY <2>3 DEF vars, files, CopyConfig, CopyKey, runNode, produceBlock, SaveHeight,
                    Kill, onNewBlock
      <3> QED
        BY <1>2, <3>1, FilesAlone
    <2> QED
      BY <1>2, <2>1, <2>2, <2>3 DEF Next
  <1>3. NetworkInv => Shapes
    BY DEF NetworkInv
  <1> QED
    BY NetworkAlways, <1>1, <1>2, <1>3, PTL DEF Spec

\* A bootstrap that ran to its end leaves key files that convert back to the keys
\* of its genesis.json or, where the writing broke off, to nothing: whatever
\* interrupted ones left in the directory before it, and for every length and
\* value of the keys.
THEOREM KeyFilesNeverMixed == Spec => []OwnKeyOrNone
  <1>1. Shapes /\ FilesInv => OwnKeyOrNone
    <2> SUFFICES ASSUME Shapes, FilesInv, Founded(home.config),
                        Last(home.config.authorities).address = KeyPairs[keys],
                        NEW m \in Machine, m < Len(home.config.authorities)
                 PROVE  LET key == loadPrivateKey(home.key[m]) IN
                        \/ key = home.config.authorities[m + 1].address
                        \/ key = None /\ m \in broken
      BY DEF OwnKeyOrNone, Founded
    <2>1. Addresses(home.config) /\ HasKeyFiles(home.config)
      BY DEF FilesInv
    <2>2. m + 1 \in 1..Len(home.config.authorities)
      <3>1. PICK s : s = home.config.authorities
        OBVIOUS
      <3>2. s \in Seq({s[i] : i \in DOMAIN s})
        BY <2>1, <3>1 DEF Addresses, IsSeq
      <3>3. Len(s) \in Nat /\ m \in Nat
        BY <3>2, BootstrapAssumption
      <3> QED
        BY <3>1, <3>3
    <2>3. PICK k \in Used : home.config.authorities[m + 1].address = k
      BY <2>1, <2>2 DEF Addresses
    <2>4. k \in PrivateKey
      BY KeysDiffer DEF Shapes, Used
    <2>5. WrittenFor(m, k)
      BY <2>1, <2>3 DEF HasKeyFiles
    <2>6. CASE home.key[m] = savePrivateKey(k)
      BY <2>3, <2>4, <2>6, KeyFileRoundTrip
    <2>7. ASSUME m \in broken, NEW n \in Nat, n < Len(savePrivateKey(k)),
                 home.key[m] = SubSeq(savePrivateKey(k), 1, n)
          PROVE  loadPrivateKey(home.key[m]) \in {k, None}
      BY <2>4, <2>7, CutKeyFileRefused
    <2> QED
      BY <2>3, <2>5, <2>6, <2>7 DEF WrittenFor
  <1>2. NetworkInv => Shapes
    BY DEF NetworkInv
  <1> QED
    BY NetworkAlways, FilesAlways, <1>1, <1>2, PTL

=============================================================================
