------------------------------ MODULE BlockLog ------------------------------
(***************************************************************************)
(* What a TitanCore network is for, without messages, threads or disks: a  *)
(* log of blocks in which every index is written once, by the authority    *)
(* whose turn it is, on top of the block before it, and which every node   *)
(* comes to know in order and never forgets.  A crash is not visible here: *)
(* TitanNet implements this specification across crashes.                  *)
(***************************************************************************)
EXTENDS PoAChain

CONSTANTS
    Node,        \* the nodes
    MaxHeight,   \* no block is produced at this height
    None         \* no block

VARIABLES
    log,         \* log[i]: the block with index i, or None
    seen         \* seen[n]: number of blocks, genesis included, that n has

logVars == <<log, seen>>

Index == 1..MaxHeight-1

\* The block that the one with index i has to follow.
Before(i) == IF i = 1 THEN GenesisBlock ELSE log[i-1]

Init ==
    /\ log = [i \in Index |-> None]
    /\ seen = [n \in Node |-> 1]

\* n, which has everything so far, writes the block that is its to write.
Produce(n) ==
    LET i == seen[n] IN
    /\ i \in Index /\ getProducer(i) = n
    /\ log[i] = None
    /\ log'[i] # None /\ Follows(log'[i], Before(i), i)
    /\ log' = [log EXCEPT ![i] = log'[i]]
    /\ seen' = [seen EXCEPT ![n] = i + 1]

\* n gets the next block of the log.
Learn(n) ==
    /\ seen[n] \in Index /\ log[seen[n]] # None
    /\ seen' = [seen EXCEPT ![n] = @ + 1]
    /\ UNCHANGED log

Next == \E n \in Node : Produce(n) \/ Learn(n)

Spec == Init /\ [][Next]_logVars

=============================================================================
